---- MODULE Spec2Model ----
(***************************************************************************)
(* Batched, parallel query search of ducksearch                            *)
(* (src/ducksearch/search/select.py): search() stages the whole QuerySet,  *)
(* loads and indexes it, then runs _search() per batch on a thread pool    *)
(* and concatenates the per-batch slots in batch order.                    *)
(***************************************************************************)
EXTENDS Integers, Sequences, FiniteSets, TLC

\* ------------------------------------------------------------------ bounds
MaxLen == 3
MaxBatch == 3
MaxTopK == 2
NumProcessors == 2
MaxConcurrentLen == 2
MaxRepeatLen == 2

Calls == {1, 2}
Texts == {"a", "b"}
None == "None"
NoResult == "NoResult"

Min(x, y) == IF x < y THEN x ELSE y

QuerySets == UNION {[1..n -> Texts] : n \in 1..MaxLen}
\* the `queries` argument: one string, or a list of strings
QueryArgs == [kind : {"str"}, value : Texts] \cup [kind : {"list"}, value : QuerySets]
BatchSizes == 1..MaxBatch
TopKs == 1..MaxTopK
NJobs == {-1, 1, 2}
Filters == {None, "X", "Y"}
Indexes == 0..(MaxLen - 1)

\* ------------------------------------------------------------- the engine
\* The source rows the engine ranks for a query text, best score first.
Ranking(q) ==
    CASE q = "a" -> << [id |-> "X", score |-> 3], [id |-> "Y", score |-> 2],
                       [id |-> "Z", score |-> 1] >>
      [] q = "b" -> << [id |-> "Y", score |-> 2] >>
      [] OTHER -> << >>

\* `filters` is a predicate on the source rows; "X" stands for id = 'X', "Y" for id = 'Y'.
Satisfies(r, f) == f = None \/ r.id = f

TopRows(s, k) == SubSeq(s, 1, Min(k, Len(s)))

Tagged(q, s) == [j \in 1..Len(s) |-> [_query |-> q, id |-> s[j].id, score |-> s[j].score]]

\* retrieve: for every query row of the artifact, up to top_k best rows of the
\* source, each tagged with the query text of the row.
RECURSIVE Retrieve(_, _, _, _)
Retrieve(rows, k, f, index) ==
    IF rows = << >> THEN << >>
    ELSE LET q == Head(rows)
             kept == SelectSeq(Ranking(q), LAMBDA r : Satisfies(r, f))
             found == IF q \in index THEN Tagged(q, TopRows(kept, k)) ELSE << >>
         IN  found \o Retrieve(Tail(rows), k, f, index)

_search_query(rows, k, f, index) == Retrieve(rows, k, None, index)

_search_query_filters(rows, k, f, index) == Retrieve(rows, k, f, index)

\* ------------------------------------------------------------- batchify
NumBatches(X, b) == (Len(X) + b - 1) \div b

batchify(X, b) ==
    [j \in 1..NumBatches(X, b) |-> SubSeq(X, (j - 1) * b + 1, Min(j * b, Len(X)))]

\* ------------------------------------------------------------- the state
VARIABLES
    pc,              \* pc[c]: where call c of search() stands
    given,           \* given[c]: the `queries` argument as passed
    queries,         \* queries[c]: the normalised list
    batch_size, top_k, n_jobs, filters,
    bpc,             \* bpc[c][i]: where the _search() of batch i stands
    search_function, \* search_function[c][i]: the function picked at line 251
    matchs,          \* matchs[c][i]: what the engine returned to batch i
    slots,           \* slots[c][i]: the list _search() returned for batch i
    completed,       \* completed[c]: batch indexes in the order they returned
    result,          \* result[c]: what search() returned
    files,           \* the working directory: file name -> rows
    queries_table,   \* texts loaded in the schema's query table
    queries_index,   \* texts the schema's index covers
    mutations        \* mutations[c]: how often call c staged, loaded, indexed

params == <<given, queries, batch_size, top_k, n_jobs, filters>>
batchvars == <<bpc, search_function, matchs, slots, completed>>
engine == <<queries_table, queries_index, mutations>>
vars == <<pc, params, batchvars, result, files, engine>>

\* ------------------------------------------------------------- helpers
\* a string is not wrapped into a list: no query row comes of it
NormalizeUnwrapped(arg) == IF arg.kind = "str" THEN << >> ELSE arg.value

Normalize(arg) == IF arg.kind = "str" THEN <<arg.value>> ELSE arg.value

QueriesFile == "_queries.parquet"

\* a file name that leaves the batch index out
ParquetNameShared(index) == "_queries_.parquet"

\* line 261: f"_queries_{index}.parquet", for every batch index
ParquetNames == [index \in Indexes |-> "_queries_" \o ToString(index) \o ".parquet"]

ParquetName(index) == ParquetNames[index]

WriteFile(fs, name, rows) ==
    [n \in DOMAIN fs \cup {name} |-> IF n = name THEN rows ELSE fs[n]]

\* the file is left where it is
RemoveFileKept(fs, name) == fs

RemoveFile(fs, name) == [n \in DOMAIN fs \ {name} |-> fs[n]]

Range(s) == {s[j] : j \in 1..Len(s)}

\* the QuerySet cut with a batch size that is one too large
BatchesOversized(c) == batchify(queries[c], batch_size[c] + 1)

Batches(c) == batchify(queries[c], batch_size[c])

BatchIndexes(c) == 0..(Len(Batches(c)) - 1)

\* joblib: a negative n_jobs counts back from the number of processors
Workers(n) == IF n < 0 THEN NumProcessors + 1 + n ELSE n

\* every batch gets all the processors, whatever n_jobs is
JobLimitAllProcessors(c) == Workers(-1)

JobLimit(c) == Workers(IF Len(queries[c]) <= batch_size[c] THEN 1 ELSE n_jobs[c])

Running(c) == {i \in Indexes : bpc[c][i] \in {"staged", "retrieved", "removed"}}

Raised(c) == {i \in Indexes : bpc[c][i] = "raised"}

\* the unfiltered retrieval whatever `filters` is
PickFunctionUnfiltered(f) == "_search_query"

PickFunction(f) == IF f # None THEN "_search_query_filters" ELSE "_search_query"

CallEngine(fn, rows, k, f, index) ==
    IF fn = "_search_query_filters" THEN _search_query_filters(rows, k, f, index)
    ELSE _search_query(rows, k, f, index)

\* the tag is read and the record is left as it is
PopKept(match) == match

\* line 282: the record without its "_query" key
Pop(match) == [key \in DOMAIN match \ {"_query"} |-> match[key]]

\* lines 280-283: candidates = defaultdict(list), filled in the order of matchs
RECURSIVE Group(_, _)
Group(ms, candidates) ==
    IF ms = << >> THEN candidates
    ELSE Group(Tail(ms),
               [candidates EXCEPT ![Head(ms)._query] = Append(@, Pop(Head(ms)))])

\* only the queries that have a candidate get a slot
AggregateMatched(ms, qs) ==
    LET candidates == Group(ms, [q \in Texts |-> << >>])
    IN  SelectSeq([j \in 1..Len(qs) |-> candidates[qs[j]]], LAMBDA slot : slot # << >>)

\* line 284
Aggregate(ms, qs) ==
    LET candidates == Group(ms, [q \in Texts |-> << >>])
    IN  [j \in 1..Len(qs) |-> candidates[qs[j]]]

\* the lists of the batches, extended in the order the batches completed
RECURSIVE ExtendCompleted(_, _)
ExtendCompleted(c, n) ==
    IF n = 0 THEN << >> ELSE ExtendCompleted(c, n - 1) \o slots[c][completed[c][n]]

\* lines 383-403: the lists of the batches, extended in batch order
RECURSIVE Extend(_, _)
Extend(c, n) ==
    IF n = 0 THEN << >> ELSE Extend(c, n - 1) \o slots[c][n - 1]

\* a batch that raised counts as a batch that returned nothing
GatheredOrRaised(c) == \A i \in BatchIndexes(c) : bpc[c][i] \in {"returned", "raised"}

\* batches are handed out before the index is built
DispatchingEarly(c) == pc[c] \in {"staged", "inserted", "parallel"}

\* batches are handed out although search has raised
DispatchingAnyway(c) == pc[c] \in {"parallel", "raised"}

\* lines 384-402 are reached: the pool hands batches out
Dispatching(c) == pc[c] = "parallel"

Gathered(c) == \A i \in BatchIndexes(c) : bpc[c][i] = "returned"

\* ------------------------------------------------------------- Init
Init ==
    /\ pc = [c \in Calls |-> "idle"]
    /\ given = [c \in Calls |-> [kind |-> "list", value |-> << >>]]
    /\ queries = [c \in Calls |-> << >>]
    /\ batch_size = [c \in Calls |-> 1]
    /\ top_k = [c \in Calls |-> 1]
    /\ n_jobs = [c \in Calls |-> 1]
    /\ filters = [c \in Calls |-> None]
    /\ bpc = [c \in Calls |-> [i \in Indexes |-> "pending"]]
    /\ search_function = [c \in Calls |-> [i \in Indexes |-> None]]
    /\ matchs = [c \in Calls |-> [i \in Indexes |-> << >>]]
    /\ slots = [c \in Calls |-> [i \in Indexes |-> << >>]]
    /\ completed = [c \in Calls |-> << >>]
    /\ result = [c \in Calls |-> NoResult]
    /\ files = << >>
    /\ queries_table = {}
    /\ queries_index = {}
    /\ mutations = [c \in Calls |-> [staged |-> 0, loaded |-> 0, indexed |-> 0]]

\* ------------------------------------------------------------- search()
\* lines 347-355
Search(c, arg, b, k, n, f) ==
    /\ pc[c] = "idle"
    /\ pc' = [pc EXCEPT ![c] = "called"]
    /\ given' = [given EXCEPT ![c] = arg]
    /\ queries' = [queries EXCEPT ![c] = Normalize(arg)]
    /\ batch_size' = [batch_size EXCEPT ![c] = b]
    /\ top_k' = [top_k EXCEPT ![c] = k]
    /\ n_jobs' = [n_jobs EXCEPT ![c] = n]
    /\ filters' = [filters EXCEPT ![c] = f]
    /\ UNCHANGED <<batchvars, result, files, engine>>

\* lines 357-361
SelectSettings(c) ==
    /\ pc[c] = "called"
    /\ pc' = [pc EXCEPT ![c] = "settings"]
    /\ UNCHANGED <<params, batchvars, result, files, engine>>

SelectSettingsRaise(c) ==
    /\ pc[c] = "called"
    /\ pc' = [pc EXCEPT ![c] = "raised"]
    /\ UNCHANGED <<params, batchvars, result, files, engine>>

\* lines 363-367
WriteTable(c) ==
    /\ pc[c] = "settings"
    /\ files' = WriteFile(files, QueriesFile, queries[c])
    /\ mutations' = [mutations EXCEPT ![c].staged = @ + 1]
    /\ pc' = [pc EXCEPT ![c] = "staged"]
    /\ UNCHANGED <<params, batchvars, result, queries_table, queries_index>>

WriteTableRaise(c) ==
    /\ pc[c] = "settings"
    /\ pc' = [pc EXCEPT ![c] = "raised"]
    /\ UNCHANGED <<params, batchvars, result, files, engine>>

\* lines 369-374
InsertQueries(c) ==
    /\ pc[c] = "staged"
    /\ IF QueriesFile \in DOMAIN files
       THEN /\ queries_table' = queries_table \cup Range(files[QueriesFile])
            /\ mutations' = [mutations EXCEPT ![c].loaded = @ + 1]
            /\ pc' = [pc EXCEPT ![c] = "inserted"]
       ELSE /\ pc' = [pc EXCEPT ![c] = "raised"]
            /\ UNCHANGED <<queries_table, mutations>>
    /\ UNCHANGED <<params, batchvars, result, files, queries_index>>

InsertQueriesRaise(c) ==
    /\ pc[c] = "staged"
    /\ pc' = [pc EXCEPT ![c] = "raised"]
    /\ UNCHANGED <<params, batchvars, result, files, engine>>

\* lines 376-381
CreateQueriesIndex(c) ==
    /\ pc[c] = "inserted"
    /\ queries_index' = queries_table
    /\ mutations' = [mutations EXCEPT ![c].indexed = @ + 1]
    /\ pc' = [pc EXCEPT ![c] = "parallel"]
    /\ UNCHANGED <<params, batchvars, result, files, queries_table>>

CreateQueriesIndexRaise(c) ==
    /\ pc[c] = "inserted"
    /\ pc' = [pc EXCEPT ![c] = "raised"]
    /\ UNCHANGED <<params, batchvars, result, files, engine>>

\* ------------------------------------------------------------- _search()
\* lines 251-263, run by a worker of the pool: batches are handed out in
\* index order, at most JobLimit at a time, none after a batch has raised
BatchStage(c, i) ==
    /\ Dispatching(c)
    /\ i \in BatchIndexes(c)
    /\ bpc[c][i] = "pending"
    /\ \A j \in BatchIndexes(c) : j < i => bpc[c][j] # "pending"
    /\ Cardinality(Running(c)) < JobLimit(c)
    /\ Raised(c) = {}
    /\ search_function' = [search_function EXCEPT ![c][i] = PickFunction(filters[c])]
    /\ files' = WriteFile(files, ParquetName(i), Batches(c)[i + 1])
    /\ bpc' = [bpc EXCEPT ![c][i] = "staged"]
    /\ UNCHANGED <<pc, params, matchs, slots, completed, result, engine>>

\* lines 265-275
BatchRetrieve(c, i) ==
    /\ bpc[c][i] = "staged"
    /\ IF ParquetName(i) \in DOMAIN files
       THEN /\ matchs' = [matchs EXCEPT ![c][i] =
                  CallEngine(search_function[c][i], files[ParquetName(i)],
                             top_k[c], filters[c], queries_index)]
            /\ bpc' = [bpc EXCEPT ![c][i] = "retrieved"]
       ELSE /\ bpc' = [bpc EXCEPT ![c][i] = "raised"]
            /\ UNCHANGED matchs
    /\ UNCHANGED <<pc, params, search_function, slots, completed, result, files, engine>>

BatchRetrieveRaise(c, i) ==
    /\ bpc[c][i] = "staged"
    /\ bpc' = [bpc EXCEPT ![c][i] = "raised"]
    /\ UNCHANGED <<pc, params, search_function, matchs, slots, completed, result,
                   files, engine>>

\* lines 277-278
BatchRemove(c, i) ==
    /\ bpc[c][i] = "retrieved"
    /\ files' = IF ParquetName(i) \in DOMAIN files
                THEN RemoveFile(files, ParquetName(i)) ELSE files
    /\ bpc' = [bpc EXCEPT ![c][i] = "removed"]
    /\ UNCHANGED <<pc, params, search_function, matchs, slots, completed, result, engine>>

\* lines 280-284
BatchReturn(c, i) ==
    /\ bpc[c][i] = "removed"
    /\ slots' = [slots EXCEPT ![c][i] = Aggregate(matchs[c][i], Batches(c)[i + 1])]
    /\ completed' = [completed EXCEPT ![c] = Append(@, i)]
    /\ bpc' = [bpc EXCEPT ![c][i] = "returned"]
    /\ UNCHANGED <<pc, params, search_function, matchs, result, files, engine>>

\* lines 383-405
SearchReturn(c) ==
    /\ pc[c] = "parallel"
    /\ Gathered(c)
    /\ result' = [result EXCEPT ![c] = Extend(c, Len(Batches(c)))]
    /\ pc' = [pc EXCEPT ![c] = "returned"]
    /\ UNCHANGED <<params, batchvars, files, engine>>

\* the pool re-raises the error of a batch in the caller
SearchRaise(c) ==
    /\ pc[c] = "parallel"
    /\ Raised(c) # {}
    /\ pc' = [pc EXCEPT ![c] = "raised"]
    /\ UNCHANGED <<params, batchvars, result, files, engine>>

Step(c) ==
    \/ SelectSettings(c)
    \/ SelectSettingsRaise(c)
    \/ WriteTable(c)
    \/ WriteTableRaise(c)
    \/ InsertQueries(c)
    \/ InsertQueriesRaise(c)
    \/ CreateQueriesIndex(c)
    \/ CreateQueriesIndexRaise(c)
    \/ \E i \in Indexes : BatchStage(c, i)
    \/ \E i \in Indexes : BatchRetrieve(c, i)
    \/ \E i \in Indexes : BatchRetrieveRaise(c, i)
    \/ \E i \in Indexes : BatchRemove(c, i)
    \/ \E i \in Indexes : BatchReturn(c, i)
    \/ SearchReturn(c)
    \/ SearchRaise(c)

\* ------------------------------------------------------------- one call
Call ==
    /\ pc[1] = "idle"
    /\ \E arg \in QueryArgs, b \in BatchSizes, k \in TopKs, n \in NJobs, f \in Filters :
          Search(1, arg, b, k, n, f)

Next == Call \/ Step(1)

Spec == Init /\ [][Next]_vars

\* ------------------------------------------------------------- repeated calls
\* no thread of call c is left: search() is over and so is every worker of it
Quiescent(c) == pc[c] \in {"returned", "raised"} /\ Running(c) = {}

\* a first call, and once it is over a second one with the same QuerySet,
\* top_k, n_jobs and filters, against the same engine and working directory
RepeatArgs == [kind : {"list"}, value : UNION {[1..n -> Texts] : n \in 1..MaxRepeatLen}]

RepeatNJobs == {-1, 1}

RepeatFilters == {None, "X"}

CallFirst ==
    /\ pc[1] = "idle"
    /\ \E arg \in RepeatArgs, b \in BatchSizes, k \in TopKs, n \in RepeatNJobs,
          f \in RepeatFilters :
          Search(1, arg, b, k, n, f)

CallAgain ==
    /\ Quiescent(1)
    /\ pc[2] = "idle"
    /\ \E b \in BatchSizes : Search(2, given[1], b, top_k[1], n_jobs[1], filters[1])

NextRepeat == CallFirst \/ CallAgain \/ Step(1) \/ Step(2)

SpecRepeat == Init /\ [][NextRepeat]_vars

\* ------------------------------------------------------------- concurrent calls
\* two calls of search() that may overlap, in one working directory and
\* against one engine, each with its own QuerySet and batch_size
ConcurrentArgs == [kind : {"list"}, value : UNION {[1..n -> Texts] : n \in 1..MaxConcurrentLen}]

CallConcurrently ==
    \E c \in Calls :
        /\ pc[c] = "idle"
        /\ \E arg \in ConcurrentArgs, b \in 1..MaxConcurrentLen :
              Search(c, arg, b, 1, -1, None)

NextConcurrent == CallConcurrently \/ Step(1) \/ Step(2)

SpecConcurrent == Init /\ [][NextConcurrent]_vars

\* ------------------------------------------------------------- properties
Returned(c) == pc[c] = "returned"

\* the batch that holds position j of the QuerySet of call c
BatchOf(c, j) == (j - 1) \div batch_size[c]

\* the records of ms that carry the tag q, in the order of ms, without the tag
TaggedWith(ms, q) ==
    LET sel == SelectSeq(ms, LAMBDA m : m._query = q)
    IN  [j \in 1..Len(sel) |-> [id |-> sel[j].id, score |-> sel[j].score]]

\* C1: a successful search(Q) returns exactly len(Q) slots, and slot j holds
\* the matches the engine tagged with the text Q[j] (those it returned to the
\* batch of position j), whatever the order in which the batches completed.
C1_SlotPerQuery ==
    \A c \in Calls : Returned(c) =>
        /\ Len(result[c]) = Len(queries[c])
        /\ \A j \in 1..Len(queries[c]) :
               result[c][j] = TaggedWith(matchs[c][BatchOf(c, j)], queries[c][j])

\* a call returned although its batches completed out of batch order, over a
\* QuerySet with two different texts whose slots differ
C1_Witness ==
    /\ Returned(1)
    /\ Len(completed[1]) >= 2
    /\ completed[1][1] # 0
    /\ \E i, j \in 1..Len(queries[1]) :
          /\ BatchOf(1, i) # BatchOf(1, j)
          /\ result[1][i] # result[1][j]

\* C2: positions of one QuerySet with the same text get equal slots, in the
\* same batch and across batches.
C2_DuplicatesEqual ==
    \A c \in Calls : Returned(c) =>
        \A i, j \in 1..Len(queries[c]) :
            queries[c][i] = queries[c][j] => result[c][i] = result[c][j]

\* C3: every slot of a returned ResultSet holds at most top_k records.
C3_AtMostTopK ==
    \A c \in Calls : Returned(c) =>
        \A j \in 1..Len(result[c]) : Len(result[c][j]) <= top_k[c]

\* the names of the exchange artifacts call c has written so far
Written(c) ==
    (IF pc[c] \in {"staged", "inserted", "parallel", "returned"} \/ bpc[c][0] # "pending"
     THEN {QueriesFile} ELSE {})
    \cup {ParquetName(i) : i \in {j \in Indexes : bpc[c][j] # "pending"}}

\* C5: once search has returned, none of the exchange artifacts it wrote is
\* left: neither the one of the full QuerySet nor the one of any batch.
C5_NoArtifactAfterReturn ==
    \A c \in Calls : Returned(c) => Written(c) \cap DOMAIN files = {}

\* C6: once failing calls of search have raised and their workers are over,
\* no exchange artifact is left, however many calls failed.
C6_NoArtifactAfterRaise ==
    (/\ \E c \in Calls : pc[c] = "raised"
     /\ \A c \in Calls : pc[c] \in {"idle", "raised"} /\ Running(c) = {})
        => DOMAIN files = {}

\* C7: when the retrieval of a batch has failed, search returns no ResultSet:
\* neither the slots of the batches that completed nor empty slots.
C7_NoPartialResult ==
    \A c \in Calls : Raised(c) # {} => (result[c] = NoResult /\ pc[c] # "returned")

\* search raised after one batch failed and another had returned its slots
C7_Witness ==
    /\ pc[1] = "raised"
    /\ Raised(1) # {}
    /\ \E i \in Indexes : bpc[1][i] = "returned" /\ slots[1][i] # << >>
    /\ result[1] = NoResult

\* C9: with filters given every batch runs the filtering retrieval with that
\* predicate, so every record of every slot satisfies it; with filters None
\* every batch runs the unfiltered retrieval.
C9_FiltersForwarded ==
    \A c \in Calls :
        /\ \A i \in Indexes : bpc[c][i] \in {"retrieved", "removed", "returned"} =>
              /\ filters[c] = None => search_function[c][i] = "_search_query"
              /\ \A j \in 1..Len(matchs[c][i]) : Satisfies(matchs[c][i][j], filters[c])
        /\ Returned(c) =>
              \A j \in 1..Len(result[c]) : \A r \in 1..Len(result[c][j]) :
                  Satisfies(result[c][j][r], filters[c])

\* a call with a filter returned from several batches, with a record in a
\* slot, over a text whose unfiltered ranking has records the filter rejects
C9_Witness ==
    /\ Returned(1)
    /\ filters[1] # None
    /\ Len(Batches(1)) >= 2
    /\ \E j \in 1..Len(result[1]) :
          /\ result[1][j] # << >>
          /\ \E r \in 1..Len(Ranking(queries[1][j])) :
                ~Satisfies(Ranking(queries[1][j])[r], filters[1])

\* the operations that hold an exchange artifact: the staging step of search
\* (op -1) from its write to the load of the file, and the _search of batch
\* op >= 0 from its write to its remove
Holding ==
    {[call |-> c, op |-> -1, name |-> QueriesFile] : c \in {d \in Calls : pc[d] = "staged"}}
    \cup UNION {{[call |-> c, op |-> i, name |-> ParquetName(i)] :
                   i \in {j \in Indexes : bpc[c][j] \in {"staged", "retrieved"}}} : c \in Calls}

\* C8: no two operations that are active at the same time hold an exchange
\* artifact of the same name, within one call and across concurrent calls.
C8_ArtifactNamesUnique ==
    \A g, h \in Holding : g # h => g.name # h.name

SameCall(c, d) ==
    /\ given[c] = given[d]
    /\ top_k[c] = top_k[d]
    /\ n_jobs[c] = n_jobs[d]
    /\ filters[c] = filters[d]

\* C4: for a fixed QuerySet and engine state, search returns the same
\* ResultSet for every batch_size.
C4_BatchSizeInvariant ==
    \A c, d \in Calls :
        (Returned(c) /\ Returned(d) /\ SameCall(c, d)) => result[c] = result[d]

\* C10: for a fixed QuerySet and engine state, two calls with the same
\* parameters return the same ResultSet, whatever the interleaving of their
\* batches, the second call loading the QuerySet into the query table again.
C10_Deterministic ==
    \A c, d \in Calls :
        (Returned(c) /\ Returned(d) /\ SameCall(c, d) /\ batch_size[c] = batch_size[d])
            => result[c] = result[d]

\* two calls with the same parameters returned, their batches having
\* completed in different orders, the second one over a loaded query table
C10_Witness ==
    /\ Returned(1) /\ Returned(2)
    /\ SameCall(1, 2) /\ batch_size[1] = batch_size[2]
    /\ Len(completed[1]) >= 2
    /\ completed[1] # completed[2]
    /\ \E j \in 1..Len(result[2]) : result[2][j] # << >>

\* ------------------------------------------------------------- partition
Called(c) == pc[c] # "idle"

\* the least m with m * b >= n
Ceil(n, b) == CHOOSE m \in 0..n : m * b >= n /\ (m - 1) * b < n

RECURSIVE Concat(_, _)
Concat(bs, n) == IF n = 0 THEN << >> ELSE Concat(bs, n - 1) \o bs[n]

\* bs cuts X into ceil(len(X) / b) batches of length b, the last one possibly
\* shorter, whose concatenation in order is X
Partitions(bs, X, b) ==
    /\ Len(bs) = Ceil(Len(X), b)
    /\ \A j \in 1..Len(bs) : j < Len(bs) => Len(bs[j]) = b
    /\ Len(bs) > 0 => (Len(bs[Len(bs)]) >= 1 /\ Len(bs[Len(bs)]) <= b)
    /\ Concat(bs, Len(bs)) = X

\* the scenario of 500 queries cut with batch_size = 30
Scenario500 == [j \in 1..500 |-> IF j % 2 = 0 THEN "a" ELSE "b"]

ScenarioBatches == batchify(Scenario500, 30)

\* C11: the batches of a call cut its QuerySet of length n into ceil(n / b)
\* batches of length b, the last possibly shorter, whose concatenation in
\* batch order is the QuerySet; a batch that is staged holds its cut; 500
\* queries with batch_size 30 give 17 batches that concatenate to the 500.
C11_Partition ==
    /\ \A c \in Calls : Called(c) =>
          /\ Partitions(Batches(c), queries[c], batch_size[c])
          /\ \A i \in BatchIndexes(c) :
                bpc[c][i] = "staged" =>
                    files[ParquetName(i)] =
                        SubSeq(queries[c], i * batch_size[c] + 1,
                               Min((i + 1) * batch_size[c], Len(queries[c])))
          /\ Returned(c) => Len(completed[c]) = Ceil(Len(queries[c]), batch_size[c])
    /\ Len(ScenarioBatches) = 17
    /\ Partitions(ScenarioBatches, Scenario500, 30)

\* a call returned from several batches, the last one shorter than the others
C11_Witness ==
    /\ Returned(1)
    /\ Len(Batches(1)) >= 2
    /\ Len(queries[1]) % batch_size[1] # 0
    /\ Len(result[1]) = Len(queries[1])

\* ------------------------------------------------------------- single string
\* what the engine holds for one text: its best k rows that satisfy f
Best(q, k, f) == TopRows(SelectSeq(Ranking(q), LAMBDA r : Satisfies(r, f)), k)

\* C12: a call with the single string s returns what a call with [s]
\* returns: one slot, holding the at most top_k records of s.
C12_SingleString ==
    \A c \in Calls : (Called(c) /\ given[c].kind = "str") =>
        /\ queries[c] = <<given[c].value>>
        /\ Returned(c) =>
              /\ Len(result[c]) = 1
              /\ Len(result[c][1]) <= top_k[c]
              /\ result[c][1] = Best(given[c].value, top_k[c], filters[c])

\* a call with a single string returned a slot with a record in it
C12_Witness ==
    /\ Returned(1)
    /\ given[1].kind = "str"
    /\ result[1][1] # << >>

\* ------------------------------------------------------------- concurrency
\* the limit in force: 1 when the QuerySet fits one batch, else n_jobs, the
\* number of processors standing for -1
LimitInForce(c) ==
    IF Len(queries[c]) <= batch_size[c] THEN 1
    ELSE IF n_jobs[c] = -1 THEN NumProcessors ELSE n_jobs[c]

\* C13: at every moment the number of batches of a call that are staging,
\* retrieving or deleting is at most the limit in force.
C13_BoundedConcurrency ==
    \A c \in Calls : Called(c) => Cardinality(Running(c)) <= LimitInForce(c)

\* two batches run at once under n_jobs = -1 while a third one waits
C13_Witness ==
    /\ n_jobs[1] = -1
    /\ Cardinality(Running(1)) = NumProcessors
    /\ \E i \in BatchIndexes(1) : bpc[1][i] = "pending"

\* ------------------------------------------------------------- index build
Started(c) == {i \in Indexes : bpc[c][i] # "pending"}

Once == [staged |-> 1, loaded |-> 1, indexed |-> 1]

\* C14: a call stages, loads and indexes its QuerySet at most once; the three
\* have happened exactly once, and the index covers the QuerySet, as soon as
\* a batch has started and when search returns, whatever the number of
\* batches.
C14_IndexedOnceBeforeRetrieval ==
    \A c \in Calls :
        /\ mutations[c].staged <= 1 /\ mutations[c].loaded <= 1 /\ mutations[c].indexed <= 1
        /\ (Started(c) # {} \/ Returned(c)) =>
              /\ mutations[c] = Once
              /\ Range(queries[c]) \subseteq queries_index

\* three batches have started and returned after the one index build
C14_Witness ==
    /\ Returned(1)
    /\ Len(completed[1]) = MaxLen
    /\ mutations[1] = Once

\* ------------------------------------------------------------- batch steps
\* C15: a batch stages, retrieves, deletes and returns in that order: from
\* its write to the end of its retrieve call the artifact of its name holds
\* exactly the batch's queries in order, the engine read those, and once the
\* batch has deleted it, before it returns its slots, the artifact is gone.
C15_StageRetrieveDeleteReturn ==
    \A c \in Calls : \A i \in Indexes :
        /\ bpc[c][i] \in {"staged", "retrieved"} =>
              /\ ParquetName(i) \in DOMAIN files
              /\ files[ParquetName(i)] = Batches(c)[i + 1]
        /\ bpc[c][i] \in {"retrieved", "removed", "returned"} =>
              matchs[c][i] = CallEngine(search_function[c][i], Batches(c)[i + 1],
                                        top_k[c], filters[c], Range(queries[c]))
        /\ bpc[c][i] \in {"removed", "returned"} => ParquetName(i) \notin DOMAIN files
        /\ bpc[c][i] \in {"pending", "staged", "raised"} => matchs[c][i] = << >>
        /\ bpc[c][i] # "returned" => slots[c][i] = << >>

\* a batch has returned slots with records while its neighbour still holds
\* its artifact
C15_Witness ==
    \E i, j \in Indexes :
        /\ bpc[1][i] = "returned" /\ \E n \in 1..Len(slots[1][i]) : slots[1][i][n] # << >>
        /\ bpc[1][j] = "retrieved" /\ matchs[1][j] # << >>

\* ------------------------------------------------------------- early failure
\* search raised and no batch did: the settings lookup, the staging, the load
\* or the index build failed
FailedBeforeRetrieval(c) == pc[c] = "raised" /\ Raised(c) = {}

\* C16: when the settings lookup, the staging of the QuerySet, the load or
\* the index build fails, search raises, returns nothing, and the retrieval
\* of no batch is started, then or later.
C16_NoRetrievalAfterEarlyFailure ==
    \A c \in Calls : FailedBeforeRetrieval(c) =>
        /\ Started(c) = {}
        /\ result[c] = NoResult
        /\ mutations[c].indexed = 0
        /\ \A i \in Indexes : ParquetName(i) \notin DOMAIN files

\* the load or the index build failed: the QuerySet was staged, no batch ran
C16_Witness ==
    /\ FailedBeforeRetrieval(1)
    /\ mutations[1].staged = 1
    /\ Len(Batches(1)) >= 2

\* ------------------------------------------------------------- origin tag
\* the records of the slots of a list of slots
Records(ss) == UNION {Range(ss[j]) : j \in 1..Len(ss)}

\* r is the match m without its tag, every other field as in m
Untagged(r, m) ==
    /\ DOMAIN r = DOMAIN m \ {"_query"}
    /\ \A key \in DOMAIN r : r[key] = m[key]

\* C17: no record of a slot carries the origin-query tag, and every record
\* of a slot is a match of the engine with its other fields unchanged.
C17_TagRemoved ==
    \A c \in Calls :
        /\ \A i \in Indexes : \A r \in Records(slots[c][i]) :
              /\ "_query" \notin DOMAIN r
              /\ \E n \in 1..Len(matchs[c][i]) : Untagged(r, matchs[c][i][n])
        /\ Returned(c) => \A r \in Records(result[c]) :
              /\ "_query" \notin DOMAIN r
              /\ DOMAIN r = {"id", "score"}

\* a call returned a record
C17_Witness ==
    /\ Returned(1)
    /\ Records(result[1]) # {}
    /\ \E i \in Indexes : \E n \in 1..Len(matchs[1][i]) : "_query" \in DOMAIN matchs[1][i][n]

\* ------------------------------------------------------------- no match
\* the engine holds no row for the text q under the predicate f
Unmatched(q, f) == \A n \in 1..Len(Ranking(q)) : ~Satisfies(Ranking(q)[n], f)

\* C18: a query the engine returns no record for still gets its slot: the
\* call returns, the slot at its position is the empty list, and the slots
\* of the queries that have records stay at their positions.
C18_EmptySlotKept ==
    \A c \in Calls : Returned(c) =>
        /\ DOMAIN result[c] = DOMAIN queries[c]
        /\ \A j \in DOMAIN queries[c] :
              IF Unmatched(queries[c][j], filters[c])
              THEN result[c][j] = << >>
              ELSE /\ result[c][j] # << >>
                   /\ result[c][j][1] = Best(queries[c][j], top_k[c], filters[c])[1]

\* a call returned with an empty slot before a slot that holds a record
C18_Witness ==
    /\ Returned(1)
    /\ \E i, j \in DOMAIN result[1] :
          i < j /\ result[1][i] = << >> /\ result[1][j] # << >>

\* ------------------------------------------------------------- isolation
\* what call c returns when no other call runs: the slots of its batches,
\* each retrieved from the batch's own queries, in batch order
RECURSIVE Alone(_, _)
Alone(c, n) ==
    IF n = 0 THEN << >>
    ELSE Alone(c, n - 1) \o
         Aggregate(CallEngine(PickFunction(filters[c]), Batches(c)[n], top_k[c],
                              filters[c], Range(queries[c])),
                   Batches(c)[n])

\* C19: whatever the interleaving of two calls in one working directory, the
\* artifact a batch is about to retrieve from exists and holds the batch's
\* own queries, the file search is about to load holds its own QuerySet, and
\* a call that returns, returns what it returns when run alone.
C19_CallsIsolated ==
    \A c \in Calls :
        /\ \A i \in Indexes : bpc[c][i] = "staged" =>
              /\ ParquetName(i) \in DOMAIN files
              /\ files[ParquetName(i)] = Batches(c)[i + 1]
        /\ pc[c] = "staged" =>
              /\ QueriesFile \in DOMAIN files
              /\ files[QueriesFile] = queries[c]
        /\ Returned(c) => result[c] = Alone(c, Len(Batches(c)))

====
